---- MODULE Spec2Model ----
(***************************************************************************)
(* The build registry of the test orchestrator (src/main.rs): the map of   *)
(* builds guarded by one mutex, and the four handlers that work on it.     *)
(* Time is counted in whole hours.                                         *)
(***************************************************************************)
EXTENDS Integers, Sequences, FiniteSets, TLC

\* ---------------------------------------------------------------- bounds

\* Longest test_spec_list a request body carries.
MaxSpecs == 2
\* Most successful NextSpec calls served to one build.
MaxCalls == 3
\* The same, where several builds are in use.
MaxBuildsCalls == 1

\* chrono::Duration::hours(2) in clear_old_data.
RetentionHours == 2

\* The clock stops one hour past the retention window: a build made at hour 0 is
\* then older than the window, and one made at hour 1 is exactly as old as it.
MaxTime == RetentionHours + 1

Builds == {"b1", "b2"}
Instances == {"i1", "i2"}
TheBuild == "b1"
TheInstance == "i1"
\* Test specifications are opaque strings; "" is also what an exhausted queue yields.
SpecNames == <<"t1", "t2", "t3", "t4">>

\* The request bodies: the lists of the first n names, and a list holding the
\* empty string as a specification.
SpecLists == {SubSeq(SpecNames, 1, n) : n \in 0..MaxSpecs} \cup {<<"">>}

\* The request bodies with work in them.
WorkLists == {SubSeq(SpecNames, 1, n) : n \in 1..MaxSpecs}

\* ----------------------------------------------------------------- state

VARIABLES
    build_map,  \* AppState.build_map: build id -> Build, for the builds present
    now,        \* Utc::now(), in hours
    response,   \* the last response a handler produced
    history,    \* per present build: the list it was created with, the first instance
                \* registered, the next_test values of its successful NextSpec responses,
                \* and whether a NextSpec call on it ended in "Instance not found"
    removed,    \* per build id: how its last build left the registry, if one did
    lock,       \* the mutex around build_map: "free", or the instance whose handler holds it
    pc,         \* per instance: where the handler of its request in flight stands
    task        \* per instance: its request in flight and the handler's local next_test

vars == <<build_map, now, response, history, removed, lock, pc, task>>

\* What the handlers run as one step each leave alone.
handler_vars == <<lock, pc, task>>

\* ------------------------------------------------------- domain values

Ongoing == "ongoing"
Done == "done"

BuildNotFound == "Build not found"
InstanceNotFound == "Instance not found"

NewInstance(master) ==
    [test_list |-> <<>>, test_status |-> Ongoing, is_master |-> master]

NewBuild(specs, t) ==
    [instance_map |-> <<>>, created_on |-> t, test_spec_list |-> specs]

\* HashMap::remove
MapRemove(m, k) == [x \in DOMAIN m \ {k} |-> m[x]]

\* HashMap::insert: an existing entry under the key is overwritten.
MapInsert(m, k, v) == [x \in DOMAIN m \cup {k} |-> IF x = k THEN v ELSE m[x]]

OkResponse(op, body) == [op |-> op, code |-> 200, body |-> body]

ErrResponse(op, msg) == [op |-> op, code |-> 400, body |-> [error |-> msg]]

\* ------------------------------------------------------ registry steps

\* A build exactly as old as the retention window is removed as well.
expired_at_threshold(bm, t) == {b \in DOMAIN bm : bm[b].created_on <= t - RetentionHours}

\* The builds clear_old_data removes at time t.
Expired(bm, t) == {b \in DOMAIN bm : bm[b].created_on < t - RetentionHours}

\* The comparison turned around: the expired builds stay and the others go.
clear_new_data(bm, t) == [b \in Expired(bm, t) |-> bm[b]]

clear_old_data(bm, t) == [b \in DOMAIN bm \ Expired(bm, t) |-> bm[b]]

\* A present build is replaced by the new one, as HashMap::insert would.
always_insert(bm, b, specs, t) == MapInsert(bm, b, NewBuild(specs, t))

\* A present build whose queue has run empty takes the list of the request.
or_refill(bm, b, specs, t) ==
    IF b \in DOMAIN bm /\ bm[b].test_spec_list # <<>>
    THEN bm
    ELSE IF b \in DOMAIN bm
    THEN [bm EXCEPT ![b].test_spec_list = specs]
    ELSE MapInsert(bm, b, NewBuild(specs, t))

\* build_map.entry(id).or_insert(Build {..}): a present build is kept as it is.
or_insert(bm, b, specs, t) ==
    IF b \in DOMAIN bm THEN bm ELSE MapInsert(bm, b, NewBuild(specs, t))

\* build.instance_map.insert(id, Instance {.., is_master: build.instance_map.is_empty()})
insert_instance(bm, b, i) ==
    [bm EXCEPT ![b].instance_map =
        MapInsert(@, i, NewInstance(DOMAIN bm[b].instance_map = {}))]

\* test_spec_list.pop_front().unwrap_or_else(|| "".to_string()): the value it yields
front_or_empty(q) == IF q = <<>> THEN "" ELSE Head(q)

\* A queue that is read at the front and never shortened.
peek_front(q) == q

\* test_spec_list.pop_front(): the queue it leaves
pop_front(q) == IF q = <<>> THEN q ELSE Tail(q)

\* ---------------------------------------------------------------- Init

NoTask == [op |-> "none", specs |-> <<>>, next_test |-> ""]

NoResponse == [op |-> "none", code |-> 0, body |-> [error |-> ""]]

Init ==
    /\ build_map = <<>>
    /\ now = 0
    /\ response = NoResponse
    /\ history = <<>>
    /\ removed = [b \in Builds |-> "no"]
    /\ lock = "free"
    /\ pc = [i \in Instances |-> "idle"]
    /\ task = [i \in Instances |-> NoTask]

\* ------------------------------------------------------------- handlers

\* The history of the builds that survive a registration, and of the one it creates.
history_after_register(bm, b, i, specs) ==
    [x \in DOMAIN bm |->
        IF x = b /\ b \notin DOMAIN clear_old_data(build_map, now)
        THEN [initial |-> specs, first |-> i, served |-> <<>>, refused |-> FALSE]
        ELSE history[x]]

register_instance(b, i, specs) ==
    LET swept == clear_old_data(build_map, now)
        got == or_insert(swept, b, specs, now)
        bm == insert_instance(got, b, i)
    IN /\ build_map' = bm
       /\ response' = OkResponse("register_instance", bm[b].instance_map[i])
       /\ history' = history_after_register(bm, b, i, specs)
       /\ removed' = [x \in Builds |->
                        IF x \in Expired(build_map, now) THEN "sweep" ELSE removed[x]]
       /\ UNCHANGED now

next_spec(b, i) ==
    IF b \notin DOMAIN build_map
    THEN /\ response' = ErrResponse("next_spec", BuildNotFound)
         /\ UNCHANGED <<build_map, now, history, removed>>
    ELSE LET next_test == front_or_empty(build_map[b].test_spec_list)
             popped == [build_map EXCEPT ![b].test_spec_list = pop_front(@)]
         IN IF i \notin DOMAIN popped[b].instance_map
            THEN /\ build_map' = popped
                 /\ response' = ErrResponse("next_spec", InstanceNotFound)
                 /\ history' = [history EXCEPT ![b].refused = TRUE]
                 /\ UNCHANGED <<now, removed>>
            ELSE /\ build_map' =
                        [popped EXCEPT ![b].instance_map[i].test_list = Append(@, next_test)]
                 /\ response' = OkResponse("next_spec",
                        [status |-> IF next_test = "" THEN Done ELSE Ongoing,
                         next_test |-> next_test])
                 /\ history' = [history EXCEPT ![b].served = Append(@, next_test)]
                 /\ UNCHANGED <<now, removed>>

\* An instance the build does not hold is created, already done.
test_completed_upsert(b, i) ==
    /\ IF b \notin DOMAIN build_map
       THEN /\ response' = ErrResponse("test_completed", BuildNotFound)
            /\ UNCHANGED build_map
       ELSE /\ build_map' = [build_map EXCEPT ![b].instance_map =
                    MapInsert(@, i, [test_list |-> IF i \in DOMAIN @ THEN @[i].test_list ELSE <<>>,
                                     test_status |-> Done,
                                     is_master |-> IF i \in DOMAIN @ THEN @[i].is_master ELSE FALSE])]
            /\ response' = OkResponse("test_completed", [ack |-> TRUE])
    /\ UNCHANGED <<now, history, removed>>

\* Every instance of the build is marked, not the named one alone.
test_completed_all(b, i) ==
    /\ IF b \notin DOMAIN build_map
       THEN /\ response' = ErrResponse("test_completed", BuildNotFound)
            /\ UNCHANGED build_map
       ELSE IF i \notin DOMAIN build_map[b].instance_map
       THEN /\ response' = ErrResponse("test_completed", InstanceNotFound)
            /\ UNCHANGED build_map
       ELSE /\ build_map' = [build_map EXCEPT ![b].instance_map =
                    [j \in DOMAIN @ |-> [@[j] EXCEPT !.test_status = Done]]]
            /\ response' = OkResponse("test_completed", [ack |-> TRUE])
    /\ UNCHANGED <<now, history, removed>>

test_completed(b, i) ==
    /\ IF b \notin DOMAIN build_map
       THEN /\ response' = ErrResponse("test_completed", BuildNotFound)
            /\ UNCHANGED build_map
       ELSE IF i \notin DOMAIN build_map[b].instance_map
       THEN /\ response' = ErrResponse("test_completed", InstanceNotFound)
            /\ UNCHANGED build_map
       ELSE /\ build_map' = [build_map EXCEPT ![b].instance_map[i].test_status = Done]
            /\ response' = OkResponse("test_completed", [ack |-> TRUE])
    /\ UNCHANGED <<now, history, removed>>

\* The build stays, with its queue, and loses its instances.
reset_instances_only(b, i) ==
    /\ build_map' = IF b \in DOMAIN build_map
                     THEN [build_map EXCEPT ![b].instance_map = <<>>]
                     ELSE build_map
    /\ response' = OkResponse("reset_data", [ack |-> TRUE])
    /\ removed' = [removed EXCEPT ![b] = "reset"]
    /\ UNCHANGED <<now, history>>

\* The whole registry is emptied, not the named build alone.
reset_every_build(b, i) ==
    /\ build_map' = <<>>
    /\ history' = <<>>
    /\ response' = OkResponse("reset_data", [ack |-> TRUE])
    /\ removed' = [removed EXCEPT ![b] = "reset"]
    /\ UNCHANGED now

reset_data(b, i) ==
    /\ build_map' = MapRemove(build_map, b)
    /\ history' = MapRemove(history, b)
    /\ response' = OkResponse("reset_data", [ack |-> TRUE])
    /\ removed' = [removed EXCEPT ![b] = "reset"]
    /\ UNCHANGED now

\* Time passes between requests.
Tick ==
    /\ now < MaxTime
    /\ now' = now + 1
    /\ UNCHANGED <<build_map, response, history, removed, handler_vars>>

\* Whether fewer than n NextSpec calls were served to build b, if it is present.
Served(b, n) == b \in DOMAIN history => Len(history[b].served) < n

\* The service with one build id in use: both instances, every request body.
RegisterInstance ==
    /\ \E i \in Instances, specs \in SpecLists : register_instance(TheBuild, i, specs)
    /\ UNCHANGED handler_vars

NextSpec ==
    /\ \E i \in Instances : Served(TheBuild, MaxCalls) /\ next_spec(TheBuild, i)
    /\ UNCHANGED handler_vars

TestCompleted ==
    /\ \E i \in Instances : test_completed(TheBuild, i)
    /\ UNCHANGED handler_vars

ResetBuild ==
    /\ \E i \in Instances : reset_data(TheBuild, i)
    /\ UNCHANGED handler_vars

Next == RegisterInstance \/ NextSpec \/ TestCompleted \/ ResetBuild \/ Tick

Spec == Init /\ [][Next]_vars

\* A NextSpec call of an instance the build holds.
Poll ==
    /\ NextSpec
    /\ response'.code = 200

\* The service with one build id in use, where the registered instances keep
\* asking for work: a call they can make is made.
SpecPolling == Init /\ [][Next]_vars /\ WF_vars(Poll)

\* The service with several build ids in use, each worked on by one instance.
BuildsRegisterInstance ==
    /\ \E b \in Builds, specs \in WorkLists : register_instance(b, TheInstance, specs)
    /\ UNCHANGED handler_vars

BuildsNextSpec ==
    /\ \E b \in Builds : Served(b, MaxBuildsCalls) /\ next_spec(b, TheInstance)
    /\ UNCHANGED handler_vars

BuildsTestCompleted ==
    /\ \E b \in Builds : test_completed(b, TheInstance)
    /\ UNCHANGED handler_vars

BuildsResetBuild ==
    /\ \E b \in Builds : reset_data(b, TheInstance)
    /\ UNCHANGED handler_vars

BuildsNext ==
    \/ BuildsRegisterInstance
    \/ BuildsNextSpec
    \/ BuildsTestCompleted
    \/ BuildsResetBuild
    \/ Tick

SpecBuilds == Init /\ [][BuildsNext]_vars

\* ------------------------------------------- handlers as concurrent tasks

(***************************************************************************)
(* The handlers of the requests in flight run side by side, one request    *)
(* per instance, all for one build id. A handler waits for the mutex, then *)
(* makes its accesses to build_map one step at a time, and gives the mutex *)
(* back when it returns, which is when its response is made.               *)
(***************************************************************************)

Ops == {"register_instance", "next_spec", "test_completed", "reset_data"}

\* The request body the registrations carry here: the longest list.
ConcLists == {SubSeq(SpecNames, 1, MaxSpecs)}

\* The first access a handler makes once it holds the mutex.
FirstStep(op) ==
    CASE op = "register_instance" -> "sweep"
      [] op = "next_spec" -> "pop"
      [] op = "test_completed" -> "set"
      [] op = "reset_data" -> "remove"

\* The places where a handler holds the MutexGuard.
Critical == {"sweep", "entry", "insert", "pop", "push", "set", "remove"}

\* A request of instance i reaches its handler.
Arrive(i) ==
    /\ pc[i] = "idle"
    /\ \E op \in Ops, specs \in ConcLists :
          /\ op = "next_spec" => Served(TheBuild, MaxCalls)
          /\ task' = [task EXCEPT ![i] =
                [op |-> op,
                 specs |-> IF op = "register_instance" THEN specs ELSE <<>>,
                 next_test |-> ""]]
    /\ pc' = [pc EXCEPT ![i] = "lock"]
    /\ UNCHANGED <<build_map, now, response, history, removed, lock>>

\* A handler that takes the mutex whoever holds it.
never_waits(l) == TRUE

\* state.build_map.lock().await goes on when the mutex is free.
can_lock(l) == l = "free"

Acquire(i) ==
    /\ pc[i] = "lock"
    /\ can_lock(lock)
    /\ lock' = i
    /\ pc' = [pc EXCEPT ![i] = FirstStep(task[i].op)]
    /\ UNCHANGED <<build_map, now, response, history, removed, task>>

\* A handler that returns and leaves the mutex taken.
return_holding(i) ==
    /\ lock' = lock
    /\ pc' = [pc EXCEPT ![i] = "idle"]

\* The handler of i returns: the MutexGuard is dropped.
Return(i) ==
    /\ lock' = "free"
    /\ pc' = [pc EXCEPT ![i] = "idle"]

\* register_instance: clear_old_data(&mut build_map)
Sweep(i) ==
    /\ pc[i] = "sweep"
    /\ build_map' = clear_old_data(build_map, now)
    /\ history' = [x \in DOMAIN build_map' |-> history[x]]
    /\ removed' = [x \in Builds |->
                     IF x \in Expired(build_map, now) THEN "sweep" ELSE removed[x]]
    /\ pc' = [pc EXCEPT ![i] = "entry"]
    /\ UNCHANGED <<now, response, lock, task>>

\* register_instance: build_map.entry(meta.build_id).or_insert(..)
Entry(i) ==
    /\ pc[i] = "entry"
    /\ build_map' = or_insert(build_map, TheBuild, task[i].specs, now)
    /\ history' = [x \in DOMAIN build_map' |->
                     IF x \in DOMAIN build_map THEN history[x]
                     ELSE [initial |-> task[i].specs, first |-> i,
                           served |-> <<>>, refused |-> FALSE]]
    /\ pc' = [pc EXCEPT ![i] = "insert"]
    /\ UNCHANGED <<now, response, removed, lock, task>>

\* register_instance: build.instance_map.insert(..), and the response
Insert(i) ==
    /\ pc[i] = "insert"
    /\ TheBuild \in DOMAIN build_map
    /\ build_map' = insert_instance(build_map, TheBuild, i)
    /\ response' = OkResponse("register_instance", build_map'[TheBuild].instance_map[i])
    /\ Return(i)
    /\ UNCHANGED <<now, history, removed, task>>

\* next_spec: the first lookup of the build, and test_spec_list.pop_front()
Pop(i) ==
    /\ pc[i] = "pop"
    /\ IF TheBuild \notin DOMAIN build_map
       THEN /\ response' = ErrResponse("next_spec", BuildNotFound)
            /\ Return(i)
            /\ UNCHANGED <<build_map, task>>
       ELSE /\ build_map' = [build_map EXCEPT ![TheBuild].test_spec_list = pop_front(@)]
            /\ task' = [task EXCEPT ![i].next_test =
                            front_or_empty(build_map[TheBuild].test_spec_list)]
            /\ pc' = [pc EXCEPT ![i] = "push"]
            /\ UNCHANGED <<response, lock>>
    /\ UNCHANGED <<now, history, removed>>

\* next_spec: the second lookup of the build, the lookup of the instance,
\* test_list.push(next_test), and the response
Push(i) ==
    /\ pc[i] = "push"
    /\ IF TheBuild \notin DOMAIN build_map
       THEN /\ response' = ErrResponse("next_spec", BuildNotFound)
            /\ UNCHANGED <<build_map, history>>
       ELSE IF i \notin DOMAIN build_map[TheBuild].instance_map
       THEN /\ response' = ErrResponse("next_spec", InstanceNotFound)
            /\ history' = [history EXCEPT ![TheBuild].refused = TRUE]
            /\ UNCHANGED build_map
       ELSE /\ build_map' = [build_map EXCEPT
                    ![TheBuild].instance_map[i].test_list = Append(@, task[i].next_test)]
            /\ response' = OkResponse("next_spec",
                    [status |-> IF task[i].next_test = "" THEN Done ELSE Ongoing,
                     next_test |-> task[i].next_test])
            /\ history' = [history EXCEPT ![TheBuild].served = Append(@, task[i].next_test)]
    /\ Return(i)
    /\ UNCHANGED <<now, removed, task>>

\* test_completed makes its accesses in one statement.
Set(i) ==
    /\ pc[i] = "set"
    /\ test_completed(TheBuild, i)
    /\ Return(i)
    /\ UNCHANGED task

\* reset_data makes one access.
Remove(i) ==
    /\ pc[i] = "remove"
    /\ reset_data(TheBuild, i)
    /\ Return(i)
    /\ UNCHANGED task

ConcNext ==
    \E i \in Instances :
        \/ Arrive(i)
        \/ Acquire(i)
        \/ Sweep(i)
        \/ Entry(i)
        \/ Insert(i)
        \/ Pop(i)
        \/ Push(i)
        \/ Set(i)
        \/ Remove(i)

SpecConc == Init /\ [][ConcNext]_vars

\* --------------------------------------------- the tasks, scheduled fairly

\* A request of instance i reaches its handler; the NextSpec calls served to the
\* build are capped as where several builds are in use.
FairArrive(i) ==
    /\ pc[i] = "idle"
    /\ \E op \in Ops, specs \in ConcLists :
          /\ op = "next_spec" => Served(TheBuild, MaxBuildsCalls)
          /\ task' = [task EXCEPT ![i] =
                [op |-> op,
                 specs |-> IF op = "register_instance" THEN specs ELSE <<>>,
                 next_test |-> ""]]
    /\ pc' = [pc EXCEPT ![i] = "lock"]
    /\ UNCHANGED <<build_map, now, response, history, removed, lock>>

\* The steps of the handler of i between taking the mutex and returning.
HandlerStep(i) ==
    \/ Sweep(i)
    \/ Entry(i)
    \/ Insert(i)
    \/ Pop(i)
    \/ Push(i)
    \/ Set(i)
    \/ Remove(i)

FairNext ==
    \E i \in Instances :
        \/ FairArrive(i)
        \/ Acquire(i)
        \/ HandlerStep(i)

\* The runtime polls every task that can go on, and tokio's Mutex hands the lock
\* to its waiters in the order they asked: a handler that can go on does, and a
\* handler that waits for the mutex gets it once it has been free often enough.
Fairness ==
    \A i \in Instances :
        /\ WF_vars(HandlerStep(i))
        /\ SF_vars(Acquire(i))

SpecFair == Init /\ [][FairNext]_vars /\ Fairness

\* ------------------------------------------------- requests and identity

(***************************************************************************)
(* Every handler takes a RequestMeta, which actix-web extracts from the    *)
(* request's headers before it calls the handler. A header is absent, or   *)
(* holds bytes that are not visible ASCII (to_str fails), or holds a text, *)
(* which may be empty.                                                     *)
(***************************************************************************)

\* Settings.token, read from the configuration file.
ConfigToken == "secret"

NoHeader == [given |-> FALSE, text |-> FALSE, value |-> ""]
NotText == [given |-> TRUE, text |-> FALSE, value |-> ""]
Header(v) == [given |-> TRUE, text |-> TRUE, value |-> v]

\* What a header may hold besides the value a good request carries in it.
OtherHeaders == {NoHeader, NotText, Header("")}

\* The request of an instance of the build that knows the secret.
GoodRequest ==
    [ci_build_id |-> Header(TheBuild),
     ci_instance_id |-> Header(TheInstance),
     repo_token |-> Header(ConfigToken)]

\* The requests, by what they carry as CI-BUILD-ID, CI-INSTANCE-ID and REPO-TOKEN:
\* the good request, and the requests that differ from it in one header.
Requests ==
    {GoodRequest}
        \cup {[GoodRequest EXCEPT !.ci_build_id = h] : h \in OtherHeaders}
        \cup {[GoodRequest EXCEPT !.ci_instance_id = h] : h \in OtherHeaders}
        \cup {[GoodRequest EXCEPT !.repo_token = h] : h \in OtherHeaders \cup {Header("wrong")}}

\* headers.get(name)?.to_str().ok()?.to_string()
header_text(h) == IF h.given /\ h.text THEN [some |-> TRUE, value |-> h.value]
                  ELSE [some |-> FALSE, value |-> ""]

get_meta(req) ==
    LET build_id == header_text(req.ci_build_id)
        instance_id == header_text(req.ci_instance_id)
        token == header_text(req.repo_token)
    IN [some |-> build_id.some /\ instance_id.some /\ token.some,
        build_id |-> build_id.value,
        instance_id |-> instance_id.value,
        token |-> token.value]

\* RequestMeta::from_request: Ok(meta) or Err(ErrorBadRequest(..))
from_request(req) ==
    LET meta == get_meta(req)
    IN [ok |-> meta.some /\ meta.token = ConfigToken, meta |-> meta]

BadRequest == "Expected meta info like build id, instance id and token"

\* The extractor failed: the handler is not called.
Rejected ==
    /\ response' = ErrResponse("from_request", BadRequest)
    /\ UNCHANGED <<build_map, now, history, removed>>

RegisterInstanceRequest(req, specs) ==
    LET r == from_request(req)
    IN IF r.ok THEN register_instance(r.meta.build_id, r.meta.instance_id, specs)
       ELSE Rejected

NextSpecRequest(req) ==
    LET r == from_request(req)
    IN IF r.ok THEN /\ Served(r.meta.build_id, MaxBuildsCalls)
                    /\ next_spec(r.meta.build_id, r.meta.instance_id)
       ELSE Rejected

TestCompletedRequest(req) ==
    LET r == from_request(req)
    IN IF r.ok THEN test_completed(r.meta.build_id, r.meta.instance_id)
       ELSE Rejected

ResetBuildRequest(req) ==
    LET r == from_request(req)
    IN IF r.ok THEN reset_data(r.meta.build_id, r.meta.instance_id)
       ELSE Rejected

RequestsRegisterInstance ==
    /\ \E req \in Requests, specs \in WorkLists : RegisterInstanceRequest(req, specs)
    /\ UNCHANGED handler_vars

RequestsNextSpec ==
    /\ \E req \in Requests : NextSpecRequest(req)
    /\ UNCHANGED handler_vars

RequestsTestCompleted ==
    /\ \E req \in Requests : TestCompletedRequest(req)
    /\ UNCHANGED handler_vars

RequestsResetBuild ==
    /\ \E req \in Requests : ResetBuildRequest(req)
    /\ UNCHANGED handler_vars

RequestsNext ==
    \/ RequestsRegisterInstance
    \/ RequestsNextSpec
    \/ RequestsTestCompleted
    \/ RequestsResetBuild

SpecRequests == Init /\ [][RequestsNext]_vars

\* ------------------------------------------------------------ the claims

Range(seq) == {seq[k] : k \in 1..Len(seq)}

\* How many times x occurs in seq.
Count(seq, x) == Cardinality({k \in 1..Len(seq) : seq[k] = x})

\* A list of distinct non-empty specifications.
DistinctNonEmpty(seq) ==
    /\ "" \notin Range(seq)
    /\ Cardinality(Range(seq)) = Len(seq)

\* C1: for a build created with N distinct non-empty specifications and polled only
\* by registered instances, the k-th successful NextSpec response carries the k-th
\* specification for k <= N and "" for k > N, a response carries status done exactly
\* with "", and the last NextSpec response is the last value served.
C1_ServedInOrderThenDone ==
    /\ \A b \in DOMAIN build_map :
          LET h == history[b] IN
          (DistinctNonEmpty(h.initial) /\ ~h.refused) =>
              \A k \in 1..Len(h.served) :
                  h.served[k] = IF k <= Len(h.initial) THEN h.initial[k] ELSE ""
    /\ (response.op = "next_spec" /\ response.code = 200) =>
          /\ TheBuild \in DOMAIN build_map
          /\ history[TheBuild].served # <<>>
          /\ response.body.next_test =
                history[TheBuild].served[Len(history[TheBuild].served)]
          /\ (response.body.status = Done) <=> (response.body.next_test = "")

\* Both instances were served from a two-specification build, and the third call
\* got the done signal.
C1_Witness ==
    /\ TheBuild \in DOMAIN build_map
    /\ history[TheBuild].initial = <<"t1", "t2">>
    /\ history[TheBuild].served = <<"t1", "t2", "">>
    /\ ~history[TheBuild].refused
    /\ \A i \in Instances :
          /\ i \in DOMAIN build_map[TheBuild].instance_map
          /\ build_map[TheBuild].instance_map[i].test_list # <<>>
    /\ response = OkResponse("next_spec", [status |-> Done, next_test |-> ""])

\* The handler of i holds the MutexGuard.
InCritical(i) == pc[i] \in Critical

\* C2: the handler that is at an access of build_map holds the mutex and no other
\* does (one handler in its critical section at a time); a handler takes the mutex
\* once, from its waiting point, and gives it up only by returning; while it is
\* between two of its accesses no other handler moves except to arrive or wait,
\* and build_map changes by its steps alone; and the NextSpec responses of a build
\* created with distinct specifications never carry the same specification twice.
C2_HandlersAreSerialized ==
    /\ [](\A i \in Instances : InCritical(i) <=> lock = i)
    /\ [][\A i \in Instances :
            /\ (lock' = i /\ lock # i) => (pc[i] = "lock" /\ lock = "free")
            /\ (lock = i /\ lock' # i) => (pc'[i] = "idle" /\ lock' = "free")]_vars
    /\ [][\A i \in Instances :
            (InCritical(i) /\ InCritical(i)') =>
                /\ build_map' # build_map => pc'[i] # pc[i]
                /\ \A j \in Instances \ {i} :
                      {pc[j], pc'[j]} \subseteq {"idle", "lock"}]_vars
    /\ [](\A b \in DOMAIN build_map :
            DistinctNonEmpty(history[b].initial) =>
                \A k, l \in 1..Len(history[b].served) :
                    (k # l /\ history[b].served[k] # "") =>
                        history[b].served[k] # history[b].served[l])

\* i1 has dequeued "t1" and not yet appended it, while the NextSpec call of i2
\* waits for the mutex.
C2_Witness ==
    /\ pc["i1"] = "push"
    /\ task["i1"].next_test = "t1"
    /\ pc["i2"] = "lock"
    /\ task["i2"].op = "next_spec"
    /\ TheBuild \in DOMAIN build_map
    /\ DOMAIN build_map[TheBuild].instance_map = Instances

\* The places a specification of build b is in: the queue and the test_lists.
Places(b, x) ==
    LET im == build_map[b].instance_map
        held[is \in SUBSET DOMAIN im] ==
            IF is = {} THEN 0
            ELSE LET i == CHOOSE j \in is : TRUE
                 IN Count(im[i].test_list, x) + held[is \ {i}]
    IN Count(build_map[b].test_spec_list, x) + held[DOMAIN im]

\* C3: every specification a present build was created with is in exactly one
\* place: the build's queue, or the test_list of one of its instances.
C3_EachSpecInOnePlace ==
    \A b \in DOMAIN build_map :
        DistinctNonEmpty(history[b].initial) =>
            \A x \in Range(history[b].initial) : Places(b, x) = 1

\* The step is the handling of this registration (its response is tested first,
\* which tells most other steps apart at once).
Registers(b, i, specs) ==
    /\ response'.op = "register_instance"
    /\ register_instance(b, i, specs)

\* A registration of an instance id its build already holds: the build is present
\* after the sweep and has the instance.
Reregistration(b, i, specs) ==
    /\ b \in DOMAIN clear_old_data(build_map, now)
    /\ i \in DOMAIN build_map[b].instance_map
    /\ Registers(b, i, specs)

\* C4: registering an instance id its build already holds changes neither the
\* instance nor the build's queue, and the response is the existing instance.
C4_ReregistrationIsIdempotent ==
    [][\A i \in Instances, specs \in SpecLists :
          Reregistration(TheBuild, i, specs) =>
              /\ build_map'[TheBuild].instance_map[i] = build_map[TheBuild].instance_map[i]
              /\ build_map'[TheBuild].test_spec_list = build_map[TheBuild].test_spec_list
              /\ response'.body = build_map[TheBuild].instance_map[i]]_vars

\* The instances of build b whose is_master is true.
Masters(b) ==
    {i \in DOMAIN build_map[b].instance_map : build_map[b].instance_map[i].is_master}

\* C5: a build with an instance has exactly one master, the first instance that
\* was registered under it.
C5_FirstRegisteredIsTheMaster ==
    \A b \in DOMAIN build_map :
        DOMAIN build_map[b].instance_map # {} => Masters(b) = {history[b].first}

\* C6: a RegisterInstance response carries is_master = true for the first instance
\* id registered under the build, and false for every other instance id.
C6_ResponseMasterIffFirst ==
    [][\A i \in Instances, specs \in SpecLists :
          Registers(TheBuild, i, specs) =>
              (response'.body.is_master <=> (i = history'[TheBuild].first))]_vars

\* C8: TestCompleted on an absent build fails with "Build not found", on a present
\* build without the instance with "Instance not found", and either way leaves the
\* registry as it was.
C8_TestCompletedNotFound ==
    [][\A i \in Instances :
          test_completed(TheBuild, i) =>
              /\ TheBuild \notin DOMAIN build_map =>
                    /\ response' = ErrResponse("test_completed", BuildNotFound)
                    /\ build_map' = build_map
              /\ (/\ TheBuild \in DOMAIN build_map
                  /\ i \notin DOMAIN build_map[TheBuild].instance_map) =>
                    /\ response' = ErrResponse("test_completed", InstanceNotFound)
                    /\ build_map' = build_map]_vars

\* TestCompleted was refused for an instance the build does not hold, while the
\* build holds another instance with work assigned and specifications queued.
C8_Witness ==
    /\ response = ErrResponse("test_completed", InstanceNotFound)
    /\ TheBuild \in DOMAIN build_map
    /\ build_map[TheBuild].test_spec_list # <<>>
    /\ \E i \in Instances :
          /\ DOMAIN build_map[TheBuild].instance_map = {i}
          /\ build_map[TheBuild].instance_map[i].test_list # <<>>

\* The build a first registration makes.
FirstTimeBuild(i, specs, t) ==
    [instance_map |-> (i :> NewInstance(TRUE)), created_on |-> t, test_spec_list |-> specs]

\* C9: ResetBuild answers 200 and leaves the build absent, whether or not it was
\* present; the build stays absent until a RegisterInstance names it, and that
\* registration makes the build a first registration makes: the request's list as
\* the queue and the registering instance alone, as master, with nothing assigned.
C9_ResetThenFirstTimeCreation ==
    /\ [][\A i \in Instances :
            reset_data(TheBuild, i) =>
                /\ TheBuild \notin DOMAIN build_map'
                /\ response' = OkResponse("reset_data", [ack |-> TRUE])]_vars
    /\ [][(TheBuild \notin DOMAIN build_map /\ TheBuild \in DOMAIN build_map') =>
            \E i \in Instances, specs \in SpecLists :
                Registers(TheBuild, i, specs)]_vars
    /\ [][\A i \in Instances, specs \in SpecLists :
            (TheBuild \notin DOMAIN build_map /\ Registers(TheBuild, i, specs)) =>
                /\ build_map'[TheBuild] = FirstTimeBuild(i, specs, now)
                /\ response' = OkResponse("register_instance", NewInstance(TRUE))]_vars

\* The build was reset and has just been registered again, with a queue of two.
C9_Witness ==
    /\ removed[TheBuild] = "reset"
    /\ response = OkResponse("register_instance", NewInstance(TRUE))
    /\ TheBuild \in DOMAIN build_map
    /\ \E i \in Instances :
          build_map[TheBuild] = FirstTimeBuild(i, <<"t1", "t2">>, now)

\* The step leaves the build's queue and creation time as they were.
QueueKept ==
    /\ TheBuild \in DOMAIN build_map'
    /\ build_map'[TheBuild].test_spec_list = build_map[TheBuild].test_spec_list
    /\ build_map'[TheBuild].created_on = build_map[TheBuild].created_on

\* C10: RegisterInstance for a build that is present and not expired leaves the
\* build's test_spec_list and created_on as they were, whatever list it carries
\* (stated by its contrapositive: no step from such a build that changes either
\* is a registration, with any instance and any list).
C10_RegistrationKeepsQueue ==
    [][(/\ TheBuild \in DOMAIN build_map
        /\ TheBuild \notin Expired(build_map, now)
        /\ ~QueueKept) =>
            \A i \in Instances, specs \in SpecLists :
                ~Registers(TheBuild, i, specs)]_vars

\* An instance registered with the build an hour after its creation, when one of
\* its two specifications had been dequeued: the other one is still the queue.
C10_Witness ==
    /\ response.op = "register_instance"
    /\ TheBuild \in DOMAIN build_map
    /\ history[TheBuild].initial = <<"t1", "t2">>
    /\ history[TheBuild].served = <<"t1">>
    /\ build_map[TheBuild].test_spec_list = <<"t2">>
    /\ build_map[TheBuild].created_on < now
    /\ \E i \in DOMAIN build_map[TheBuild].instance_map :
          build_map[TheBuild].instance_map[i].test_list = <<"t1">>

Queue == build_map[TheBuild].test_spec_list
InstanceMap == build_map[TheBuild].instance_map

\* The step is a NextSpec call of instance i that was answered 200.
NextSpecServed(i) ==
    /\ response'.op = "next_spec"
    /\ response'.code = 200
    /\ next_spec(TheBuild, i)

\* C11: a NextSpec response carries status done exactly when the build's queue was
\* empty when the call was made, and otherwise status ongoing with the element
\* that was at the front of the queue; no stored test_status changes in the call.
C11_DoneIffQueueWasEmpty ==
    [][\A i \in Instances :
          NextSpecServed(i) =>
              /\ (response'.body.status = Done) <=> (Queue = <<>>)
              /\ Queue # <<>> =>
                    /\ response'.body.status = Ongoing
                    /\ response'.body.next_test = Head(Queue)
              /\ \A j \in DOMAIN InstanceMap :
                    build_map'[TheBuild].instance_map[j].test_status =
                        InstanceMap[j].test_status]_vars

\* The step is a TestCompleted call of instance i that was answered 200.
TestCompletedServed(i) ==
    /\ response'.op = "test_completed"
    /\ response'.code = 200
    /\ test_completed(TheBuild, i)

\* C12: a successful TestCompleted makes the named instance's test_status done and
\* leaves the queue, the creation time, the set of instances, every test_list,
\* every is_master and every other instance's test_status as they were; and a
\* NextSpec call made when an instance of the build is done is still answered with
\* the front of the queue, which it removes.
C12_TestCompletedMarksOneInstance ==
    /\ [][\A i \in Instances :
            TestCompletedServed(i) =>
                /\ build_map'[TheBuild].test_spec_list = Queue
                /\ build_map'[TheBuild].created_on = build_map[TheBuild].created_on
                /\ DOMAIN build_map'[TheBuild].instance_map = DOMAIN InstanceMap
                /\ build_map'[TheBuild].instance_map[i].test_status = Done
                /\ \A j \in DOMAIN InstanceMap :
                      LET after == build_map'[TheBuild].instance_map[j] IN
                      /\ after.test_list = InstanceMap[j].test_list
                      /\ after.is_master = InstanceMap[j].is_master
                      /\ j # i => after.test_status = InstanceMap[j].test_status]_vars
    /\ [][\A i \in Instances :
            (/\ TheBuild \in DOMAIN build_map
             /\ \E j \in DOMAIN InstanceMap : InstanceMap[j].test_status = Done
             /\ NextSpecServed(i)) =>
                /\ response'.body.next_test = IF Queue = <<>> THEN "" ELSE Head(Queue)
                /\ Queue # <<>> => build_map'[TheBuild].test_spec_list = Tail(Queue)]_vars

\* An instance that was marked done when "t1" had been served has just been
\* served "t2", and the other instance is still ongoing.
C12_Witness ==
    /\ response = OkResponse("next_spec", [status |-> Ongoing, next_test |-> "t2"])
    /\ TheBuild \in DOMAIN build_map
    /\ history[TheBuild].served = <<"t1", "t2">>
    /\ DOMAIN InstanceMap = Instances
    /\ \E i \in Instances :
          /\ InstanceMap[i].test_status = Done
          /\ InstanceMap[i].test_list = <<"t1", "t2">>
          /\ \A j \in Instances \ {i} : InstanceMap[j].test_status = Ongoing

\* C14: a NextSpec call that fails leaves the registry as it was: it fails with
\* "Build not found" when the build is absent, and with "Instance not found" when
\* the build is present without the instance, and then the queue still holds the
\* specification that was at its front.
C14_FailedNextSpecChangesNothing ==
    [][\A i \in Instances :
          (/\ response'.op = "next_spec"
           /\ response'.code = 400
           /\ next_spec(TheBuild, i)) =>
              /\ build_map' = build_map
              /\ response'.body.error =
                    IF TheBuild \notin DOMAIN build_map
                    THEN BuildNotFound ELSE InstanceNotFound]_vars

\* The build is in the registry before and after the step, and is the same build
\* (a build that was swept and made anew in the step has a later created_on).
BuildRemains ==
    /\ TheBuild \in DOMAIN build_map
    /\ TheBuild \in DOMAIN build_map'
    /\ build_map'[TheBuild].created_on = build_map[TheBuild].created_on

\* The instances the build holds before and after the step.
InstancesRemaining == DOMAIN InstanceMap \cap DOMAIN build_map'[TheBuild].instance_map

\* C17: a successful NextSpec call appends the next_test it returns to the end of
\* the caller's test_list and changes no other test_list; and the test_list of an
\* instance changes in no other way while the build holds it, so that it is the
\* sequence of the values returned to the instance, in call order.
C17_TestListIsWhatWasReturned ==
    /\ [][\A i \in Instances :
            NextSpecServed(i) =>
                /\ DOMAIN build_map'[TheBuild].instance_map = DOMAIN InstanceMap
                /\ \A j \in DOMAIN InstanceMap :
                      build_map'[TheBuild].instance_map[j].test_list =
                          IF j = i
                          THEN InstanceMap[j].test_list \o <<response'.body.next_test>>
                          ELSE InstanceMap[j].test_list]_vars
    /\ [][BuildRemains =>
            \A j \in InstancesRemaining :
                \/ build_map'[TheBuild].instance_map[j].test_list = InstanceMap[j].test_list
                \/ NextSpecServed(j)]_vars

\* C18: an instance whose stored test_status is done is still done after every
\* step that leaves it and its build in the registry.
C18_DoneStaysDone ==
    [][BuildRemains =>
          \A j \in InstancesRemaining :
              InstanceMap[j].test_status = Done =>
                  build_map'[TheBuild].instance_map[j].test_status = Done]_vars

\* What the specification asks of a request: the three values present, texts,
\* not empty, and the credential equal to the configured secret.
WellFormed(req) ==
    /\ \A h \in {req.ci_build_id, req.ci_instance_id, req.repo_token} :
          h.given /\ h.text /\ h.value # ""
    /\ req.repo_token.value = ConfigToken

\* The step is the handling of request req at one of the four endpoints.
Handles(req) ==
    \/ \E specs \in WorkLists : RegisterInstanceRequest(req, specs)
    \/ NextSpecRequest(req)
    \/ TestCompletedRequest(req)
    \/ ResetBuildRequest(req)

\* C13: a request in which the build id, the instance id or the credential is
\* missing or empty, or the credential is not the configured secret, is answered
\* with the bad-request error of the extractor and the registry is unchanged; the
\* other requests are not answered with that error.
C13_BadIdentityIsRejected ==
    [][\A req \in Requests :
          Handles(req) =>
              IF WellFormed(req)
              THEN response'.op # "from_request"
              ELSE /\ response' = ErrResponse("from_request", BadRequest)
                   /\ build_map' = build_map]_vars

\* Build b was created strictly earlier than the retention window before now.
OlderThanRetention(b) == build_map[b].created_on < now - RetentionHours

\* What a registration with build x, carrying specs, is to leave of the builds:
\* an older one is gone, or is the new build of x with the registering instance
\* alone; any other stays, unchanged unless it is x, which keeps its queue and
\* created_on.
SweptExactly(x, specs) ==
    \A b \in DOMAIN build_map :
        IF OlderThanRetention(b)
        THEN IF b = x
             THEN /\ b \in DOMAIN build_map'
                  /\ build_map'[b] = FirstTimeBuild(TheInstance, specs, now)
             ELSE b \notin DOMAIN build_map'
        ELSE /\ b \in DOMAIN build_map'
             /\ build_map'[b].created_on = build_map[b].created_on
             /\ build_map'[b].test_spec_list = build_map[b].test_spec_list
             /\ b # x => build_map'[b] = build_map[b]

\* C16: the sweep of a registration removes exactly the builds whose created_on is
\* strictly earlier than now - 2 hours, whole, and leaves every other build as it
\* was (stated by its contrapositive: a step that does otherwise is no
\* registration); and the created_on of a build that stays in the registry never
\* changes, whatever is done with the build.
C16_SweepRemovesExactlyTheOldBuilds ==
    /\ [][\A x \in Builds, specs \in WorkLists :
            ~SweptExactly(x, specs) => ~Registers(x, TheInstance, specs)]_vars
    /\ [][\A b \in DOMAIN build_map \cap DOMAIN build_map' :
            build_map'[b].created_on # build_map[b].created_on =>
                /\ OlderThanRetention(b)
                /\ build_map'[b].created_on = now]_vars

\* A registration with b1 has swept b2, made three hours before, and b1, made two
\* hours before and polled since, is still there with its creation time.
C16_Witness ==
    /\ response.op = "register_instance"
    /\ removed["b2"] = "sweep"
    /\ DOMAIN build_map = {"b1"}
    /\ build_map["b1"].created_on = now - RetentionHours
    /\ history["b1"].served # <<>>

\* The builds other than x are as they were before the step.
OthersAsBefore(x) ==
    \A b \in Builds \ {x} :
        /\ b \in DOMAIN build_map' <=> b \in DOMAIN build_map
        /\ b \in DOMAIN build_map => build_map'[b] = build_map[b]

\* The builds other than x are as they were, or gone if older than the window.
OthersAsBeforeOrSwept(x) ==
    \A b \in Builds \ {x} :
        IF b \in DOMAIN build_map /\ ~OlderThanRetention(b)
        THEN b \in DOMAIN build_map' /\ build_map'[b] = build_map[b]
        ELSE b \notin DOMAIN build_map'

\* C19: NextSpec, TestCompleted and ResetBuild for a build change no other build,
\* present or absent; RegisterInstance for a build changes another build only by
\* removing it when it is older than the retention window (both stated by the
\* contrapositive: a step that does otherwise is none of these calls).
C19_BuildsAreIsolated ==
    /\ [][\A x \in Builds :
            ~OthersAsBefore(x) =>
                /\ ~next_spec(x, TheInstance)
                /\ ~test_completed(x, TheInstance)
                /\ ~reset_data(x, TheInstance)]_vars
    /\ [][\A x \in Builds :
            ~OthersAsBeforeOrSwept(x) =>
                \A specs \in WorkLists : ~Registers(x, TheInstance, specs)]_vars

\* b1 has just been polled while b2 is as its registration made it.
C19_Witness ==
    /\ response = OkResponse("next_spec", [status |-> Ongoing, next_test |-> "t1"])
    /\ DOMAIN build_map = Builds
    /\ history["b1"].served = <<"t1">>
    /\ history["b2"].served = <<>>
    /\ build_map["b2"] =
          FirstTimeBuild(TheInstance, <<"t1", "t2">>, build_map["b2"].created_on)

\* C15: a handler that returns, with a result or with an error, gives the mutex
\* back in that step; a handler that holds the mutex can always take its next
\* step, and a request in flight can always move unless another handler holds the
\* mutex it waits for, so no state is a deadlock; a NextSpec call that finds the
\* queue empty goes on with "" as its next_test, and is answered done if its
\* instance is registered; and every request that waits for the mutex is
\* eventually through with its handler.
C15_EveryRequestCompletes ==
    /\ [][\A i \in Instances :
            (InCritical(i) /\ ~InCritical(i)') =>
                /\ pc'[i] = "idle"
                /\ lock' = "free"
                /\ response' # response \/ response'.op = task[i].op]_vars
    /\ [](\A i \in Instances :
            /\ InCritical(i) => ENABLED HandlerStep(i)
            /\ (pc[i] = "lock" /\ lock = "free") => ENABLED Acquire(i))
    /\ [][\A i \in Instances :
            (/\ pc[i] = "pop"
             /\ TheBuild \in DOMAIN build_map
             /\ build_map[TheBuild].test_spec_list = <<>>
             /\ Pop(i)) =>
                /\ pc'[i] = "push"
                /\ task'[i].next_test = ""]_vars
    /\ [][\A i \in Instances :
            (/\ pc[i] = "push"
             /\ task[i].next_test = ""
             /\ TheBuild \in DOMAIN build_map
             /\ i \in DOMAIN build_map[TheBuild].instance_map
             /\ Push(i)) =>
                response' = OkResponse("next_spec", [status |-> Done, next_test |-> ""])]_vars
    /\ \A i \in Instances : (pc[i] = "lock") ~> (pc[i] = "idle")

\* A NextSpec call that waited for the mutex while the other instance's handler
\* held it has been answered done from the empty queue.
C15_Witness ==
    /\ response = OkResponse("next_spec", [status |-> Done, next_test |-> ""])
    /\ pc["i1"] = "idle"
    /\ task["i1"].op = "next_spec"
    /\ lock = "free"
    /\ pc["i2"] = "lock"
    /\ TheBuild \in DOMAIN build_map
    /\ build_map[TheBuild].instance_map["i1"].test_list = <<"">>

\* C20: where the registered instances keep calling NextSpec, a build in the
\* registry comes to have an empty queue unless it leaves the registry; the queue
\* of a build that stays never gets longer; and every NextSpec call served from an
\* empty queue carries the done signal and leaves the queue empty.
C20_QueueDrainsAndStaysEmpty ==
    /\ (TheBuild \in DOMAIN build_map) ~>
            (TheBuild \in DOMAIN build_map => Queue = <<>>)
    /\ [][BuildRemains =>
            Len(build_map'[TheBuild].test_spec_list) <= Len(Queue)]_vars
    /\ [][\A i \in Instances :
            (/\ TheBuild \in DOMAIN build_map
             /\ Queue = <<>>
             /\ NextSpecServed(i)) =>
                /\ response'.body = [status |-> Done, next_test |-> ""]
                /\ build_map'[TheBuild].test_spec_list = <<>>]_vars

\* The one specification of the build went to i1, i2 was then told done, and a
\* registration that came after has left the queue empty.
C20_Witness ==
    /\ response.op = "register_instance"
    /\ TheBuild \in DOMAIN build_map
    /\ history[TheBuild].initial = <<"t1">>
    /\ history[TheBuild].served = <<"t1", "">>
    /\ Queue = <<>>
    /\ \E i \in DOMAIN InstanceMap : InstanceMap[i].test_list = <<"">>

====
